---- MODULE Spec2Model ----
(***************************************************************************)
(* Model of src/src/workflow/restore_from_mnemonic.c: the word-by-word     *)
(* mnemonic entry (_get_mnemonic) and the recovery workflow                *)
(* (workflow_restore_from_mnemonic), specification Spec; and of            *)
(* src/src/apps/btc/confirm_multisig.c (apps_btc_confirm_multisig),        *)
(* specification SpecMultisig.                                             *)
(*                                                                         *)
(* C buffers are sequences of bytes (index i of the C array is element     *)
(* i + 1 of the sequence), C strings end at the first 0 byte.              *)
(***************************************************************************)
EXTENDS Integers, Sequences, FiniteSets, TLC

\* ------------------------------------------------------------- bounds ----
\* Stand-in for BIP39_WORDLIST_LEN (2048, from wally_bip39.h).
WordlistLen == 2
\* Stand-in for WORKFLOW_TRINARY_INPUT_MAX_WORD_LENGTH (trinary_input.h).
MaxWordLength == 3
\* Stand-in for SET_PASSWORD_MAX_PASSWORD_LENGTH (password.h).
PasswordBufLen == 3
\* The user may enter any wordlist word at the first MaxFreeWords positions;
\* at the later positions the entered phrase is fixed (EnterableWords).
MaxFreeWords == 1
\* The largest number of password mismatches of one run.
MaxMismatch == 2
\* The largest number of cosigners of a multisig account (xpubs_count).
MaxCosigners == 3

\* ---------------------------------------------------- program constants ----
WORKFLOW_RESTORE_FROM_MNEMONIC_MAX_WORDS == 24
Words12 == 12
Words18 == 18
Words24 == 24
SeedSize == 32
Space == 32

\* ------------------------------------------------------------ C strings ----
Min(a, b) == IF a < b THEN a ELSE b

Zeros(n) == [i \in 1..n |-> 0]

\* strlen: the number of bytes before the first 0 byte.
Strlen(buf) ==
    LET zeros == {i \in 1..Len(buf) : buf[i] = 0}
    IN  IF zeros = {} THEN Len(buf)
        ELSE (CHOOSE i \in zeros : \A j \in zeros : i <= j) - 1

\* The C string a buffer holds.
CStr(buf) == SubSeq(buf, 1, Strlen(buf))

\* Write the characters s and a terminating 0 at offset off of buf (what
\* falls behind the end of buf is not part of buf).
WriteStr(buf, off, s) ==
    SubSeq(SubSeq(buf, 1, off) \o s \o <<0>> \o SubSeq(buf, off + Len(s) + 2, Len(buf)),
           1, Len(buf))

\* strcat(dst, s) for a string literal s.
Strcat(dst, s) == WriteStr(dst, Strlen(dst), s)

\* strncat(dst, src, n): at most n characters of the C string in src.
Strncat(dst, src, n) ==
    WriteStr(dst, Strlen(dst), SubSeq(CStr(src), 1, Min(n, Strlen(src))))

\* ------------------------------------------------------------- wordlist ----
\* Entry i of the wordlist the keystore hands out: non-empty, at most
\* MaxWordLength lower-case letters, distinct for distinct i; entry 0 has the
\* full MaxWordLength letters.
WordlistWord(i) == [k \in 1..(MaxWordLength - (i % MaxWordLength)) |-> 97 + i]

WordlistWords == {WordlistWord(i) : i \in 0..(WordlistLen - 1)}

\* The words the user may accept at position idx of n: any word at the first
\* positions; later the longest word throughout when 24 words are entered,
\* and the words of the wordlist in turn otherwise.
EnterableWords(idx, n) ==
    IF idx < MaxFreeWords THEN WordlistWords
    ELSE IF n = Words24 THEN {WordlistWord(0)}
    ELSE {WordlistWord(idx % WordlistLen)}

\* The passwords the user may set.
Passwords == {[k \in 1..n |-> 64 + n] : n \in 1..(PasswordBufLen - 1)}

\* The seed lengths the derivation may report, and the bytes it writes.
SeedLens == {16, 32}
DerivedSeed(old, len) == [i \in 1..SeedSize |-> IF i <= len THEN 1 + (i % 7) ELSE old[i]]

\* What an uninitialised seed[32] may hold.
UninitSeeds == {Zeros(SeedSize), [i \in 1..SeedSize |-> 204]}

VARIABLES
    app_u2f,                  \* the APP_U2F build flag
    pc,                       \* where the workflow stands
    result,                   \* what workflow_restore_from_mnemonic returned
    wordlist,                 \* wordlist[i]: 0 = NULL, 1 = allocated entry
    wl_i,                     \* the loop index of the wordlist loop
    number_of_words_choice,   \* static _number_of_words_choice
    num_words,
    words,                    \* char words[24][MAX_WORD_LENGTH + 1]
    word_idx,
    mnemonic,                 \* char mnemonic[(MAX_WORD_LENGTH + 1) * 24]
    seed,                     \* uint8_t seed[32]; <<>> before its declaration
    seed_len,
    password,                 \* char password[...]; <<>> before its declaration
    mismatches,               \* password mismatches so far (bounds the run)
    stored,                   \* what the keystore stored: <<>> or a record
    initialized,              \* the memory's initialized flag
    log,                      \* the calls of the run after the mnemonic, in order
    last,                     \* the last outcome of the word entry
    pw_set,                   \* the password of the last password_set that succeeded
    store_args,               \* the arguments of keystore_encrypt_and_store_seed
    heap,                     \* per wordlist entry: how often obtained and released
    picked,                   \* what _number_of_words_picked received in this call
    entered                   \* the words accepted per position, and which still stand

\* apps_btc_confirm_multisig: its arguments, its locals and what it showed.
VARIABLES
    coin,                     \* BTCCoin coin
    multisig,                 \* threshold, xpubs_count, our_xpub_index, script_type
    verify_xpubs,
    xpub_type,                \* BTCRegisterScriptConfigRequest_XPubType xpub_type
    output_xpub_type,         \* "none" while not assigned
    cosigner,                 \* the loop index i
    ext_key,                  \* struct ext_key xpub of the current round
    xpub_str,                 \* char xpub_str[XPUB_ENCODED_LEN] of the current round
    ms_pc,                    \* where apps_btc_confirm_multisig stands
    ms_result,                \* what it returned
    ms_log                    \* the confirmations and xpub conversions, in order

multisig_vars == <<coin, multisig, verify_xpubs, xpub_type, output_xpub_type, cosigner,
                   ext_key, xpub_str, ms_pc, ms_result, ms_log>>

restore_vars == <<app_u2f, pc, result, wordlist, wl_i, number_of_words_choice, num_words,
                  words, word_idx, mnemonic, seed, seed_len, password, mismatches, stored,
                  initialized, log, last, pw_set, store_args, heap, picked, entered>>

vars == <<app_u2f, pc, result, wordlist, wl_i, number_of_words_choice, num_words,
          words, word_idx, mnemonic, seed, seed_len, password, mismatches, stored,
          initialized, log, last, pw_set, store_args, heap, picked, entered,
          coin, multisig, verify_xpubs, xpub_type, output_xpub_type, cosigner, ext_key,
          xpub_str, ms_pc, ms_result, ms_log>>

MnemonicSizeNoTerminators == MaxWordLength * WORKFLOW_RESTORE_FROM_MNEMONIC_MAX_WORDS
MnemonicSize == (MaxWordLength + 1) * WORKFLOW_RESTORE_FROM_MNEMONIC_MAX_WORDS

NoWords == [i \in 1..WORKFLOW_RESTORE_FROM_MNEMONIC_MAX_WORDS |-> Zeros(MaxWordLength + 1)]

\* last: the outcome (op) received at position at, the word it carried,
\* whether that word is the one the slot held already (same), and the outcome
\* before it (prev).
NoOp == [op |-> "none", at |-> 0, word |-> <<>>, same |-> FALSE, prev |-> "none"]

\* The values of trinary_choice_t, and a value outside its three names.
TrinaryChoices == {"TRINARY_CHOICE_LEFT", "TRINARY_CHOICE_MIDDLE", "TRINARY_CHOICE_RIGHT"}
TrinaryChoiceValues == TrinaryChoices \cup {"TRINARY_CHOICE_OTHER"}

\* picked: the choice the callback received (choice) and the value of the
\* static it overwrote (over), the latter until _pick_number_of_words is done.
NotPicked == [choice |-> "none", over |-> "none"]

\* entered: recent[i + 1] is the word of the most recent Accepted at position
\* i (<<>>: none yet); standing holds the positions whose most recent Accepted
\* has not been stepped back over by a Delete; replaced tells, until
\* _get_mnemonic returns, whether an Accepted has put a different word where
\* an earlier Accepted had put one.
NothingEntered ==
    [recent |-> [i \in 1..WORKFLOW_RESTORE_FROM_MNEMONIC_MAX_WORDS |-> <<>>],
     standing |-> {}, replaced |-> FALSE]

\* An xpub as btc_common_encode_xpub writes it: the key under the version
\* bytes of an xpub type; NoXpubStr is the zeroed buffer.
NoXpubStr == [key |-> 0, version |-> "none"]

\* apps_btc_confirm_multisig is not running.
MultisigIdle ==
    /\ coin = "none"
    /\ multisig = <<>>
    /\ verify_xpubs = FALSE
    /\ xpub_type = "none"
    /\ output_xpub_type = "none"
    /\ cosigner = 0
    /\ ext_key = 0
    /\ xpub_str = NoXpubStr
    /\ ms_pc = "idle"
    /\ ms_result = "none"
    /\ ms_log = <<>>

Init ==
    /\ MultisigIdle
    /\ app_u2f \in BOOLEAN
    /\ pc = "wordlist"
    /\ result = "none"
    /\ wordlist = Zeros(WordlistLen)
    /\ wl_i = 0
    /\ number_of_words_choice \in TrinaryChoices
    /\ num_words = 0
    /\ words = NoWords
    /\ word_idx = 0
    /\ mnemonic = Zeros(MnemonicSize)
    /\ seed = <<>>
    /\ seed_len = 0
    /\ password = <<>>
    /\ mismatches = 0
    /\ stored = <<>>
    /\ initialized = FALSE
    /\ log = <<>>
    /\ last = NoOp
    /\ pw_set = <<>>
    /\ store_args = <<>>
    /\ heap = [obtained |-> Zeros(WordlistLen), released |-> Zeros(WordlistLen)]
    /\ picked = NotPicked
    /\ entered = NothingEntered

\* Abort(msg) halts the device: there is no step after it.
Abort == "aborted"

\* ------------------------------------------------------------- cleanups ----
\* util_cleanup_str: zeroes the string a buffer holds.
util_cleanup_str(buf) == Zeros(Strlen(buf)) \o SubSeq(buf, Strlen(buf) + 1, Len(buf))

\* util_cleanup_32: zeroes 32 bytes.
util_cleanup_32(buf) == Zeros(32) \o SubSeq(buf, 33, Len(buf))

\* _cleanup_wordlist: frees every entry that is not NULL.
cleanup_wordlist(wl) == [i \in 1..Len(wl) |-> 0]

\* The free calls of _cleanup_wordlist: one for every entry that is not NULL.
FreeNone(h, wl) == h
Free(h, wl) ==
    [h EXCEPT !.released = [i \in 1..Len(wl) |->
                               IF wl[i] # 0 THEN h.released[i] + 1 ELSE h.released[i]]]

\* The cleanup attribute of wordlist runs when _get_mnemonic returns.
CleanupWordlist ==
    /\ wordlist' = cleanup_wordlist(wordlist)
    /\ heap' = Free(heap, wordlist)

\* The buffers after the cleanups that run when workflow_restore_from_mnemonic
\* returns: mnemonic always, seed and password once they are declared.
MnemonicAtReturn == util_cleanup_str(mnemonic)
SeedAtReturnKept == seed
SeedAtReturn == IF seed # <<>> THEN util_cleanup_32(seed) ELSE seed
PasswordAtReturn == IF password # <<>> THEN util_cleanup_str(password) ELSE password

\* return res; from workflow_restore_from_mnemonic.
Return(res) ==
    /\ pc' = "returned"
    /\ result' = res
    /\ mnemonic' = MnemonicAtReturn
    /\ seed' = SeedAtReturn
    /\ password' = PasswordAtReturn

Logged(e) == log' = Append(log, e)

\* ----------------------------------------------------- _get_mnemonic ----
\* keystore_get_bip39_word(i, &wordlist[i]) succeeds.
GetWordOk ==
    /\ pc = "wordlist"
    /\ wl_i < WordlistLen
    /\ wordlist' = [wordlist EXCEPT ![wl_i + 1] = 1]
    /\ wl_i' = wl_i + 1
    /\ pc' = IF wl_i + 1 < WordlistLen THEN "wordlist" ELSE "pick"
    /\ UNCHANGED <<app_u2f, picked, entered, result, number_of_words_choice, num_words,
                   words, word_idx, mnemonic, seed, seed_len, password, mismatches,
                   stored, initialized, log, last, pw_set, store_args>>
    /\ heap' = [heap EXCEPT !.obtained[wl_i + 1] = @ + 1]
    /\ UNCHANGED multisig_vars

\* keystore_get_bip39_word fails: _get_mnemonic returns false, and so does the
\* workflow.
GetWordFail ==
    /\ pc = "wordlist"
    /\ wl_i < WordlistLen
    /\ CleanupWordlist
    /\ Return("false")
    /\ Logged("get_mnemonic:fail")
    /\ UNCHANGED <<app_u2f, picked, entered, wl_i, number_of_words_choice, num_words,
                   words, word_idx, seed_len, mismatches, stored, initialized, last,
                   pw_set, store_args>>
    /\ UNCHANGED multisig_vars

\* The callback of the trinary choice, _number_of_words_picked: it stores the
\* choice in the static and unblocks; workflow_blocking_block returns after it.
number_of_words_picked_lost ==
    /\ pc = "pick"
    /\ \E choice \in TrinaryChoiceValues :
           picked' = [choice |-> choice, over |-> number_of_words_choice]
    /\ pc' = "picked"
    /\ UNCHANGED <<app_u2f, heap, entered, result, wordlist, wl_i,
                   number_of_words_choice, num_words, words, word_idx, mnemonic, seed,
                   seed_len, password, mismatches, stored, initialized, log, last,
                   pw_set, store_args>>
    /\ UNCHANGED multisig_vars

number_of_words_picked ==
    /\ pc = "pick"
    /\ \E choice \in TrinaryChoiceValues :
           /\ number_of_words_choice' = choice
           /\ picked' = [choice |-> choice, over |-> number_of_words_choice]
    /\ pc' = "picked"
    /\ UNCHANGED <<app_u2f, heap, entered, result, wordlist, wl_i, num_words, words,
                   word_idx, mnemonic, seed, seed_len, password, mismatches, stored,
                   initialized, log, last, pw_set, store_args>>
    /\ UNCHANGED multisig_vars

\* The switch of _pick_number_of_words.
NumberOfWords(choice) ==
    CASE choice = "TRINARY_CHOICE_LEFT" -> Words12
      [] choice = "TRINARY_CHOICE_MIDDLE" -> Words18
      [] choice = "TRINARY_CHOICE_RIGHT" -> Words24
      [] OTHER -> 0

\* _pick_number_of_words after workflow_blocking_block returned.
pick_number_of_words ==
    /\ pc = "picked"
    /\ num_words' = NumberOfWords(number_of_words_choice)
    /\ pc' = IF NumberOfWords(number_of_words_choice) # 0 THEN "status_enter" ELSE Abort
    /\ UNCHANGED <<app_u2f, heap, picked, entered, result, wordlist, wl_i,
                   number_of_words_choice, words, word_idx, mnemonic, seed, seed_len,
                   password, mismatches, stored, initialized, log, last, pw_set,
                   store_args>>
    /\ UNCHANGED multisig_vars

\* workflow_status_blocking("Enter N words"), then words = {0}, word_idx = 0.
StatusEnterWords ==
    /\ pc = "status_enter"
    /\ words' = NoWords
    /\ word_idx' = 0
    /\ pc' = "entry"
    /\ UNCHANGED <<app_u2f, heap, entered, result, wordlist, wl_i,
                   number_of_words_choice, num_words, mnemonic, seed, seed_len,
                   password, mismatches, stored, initialized, log, last, pw_set,
                   store_args>>
    /\ picked' = [picked EXCEPT !.over = "none"]
    /\ UNCHANGED multisig_vars

\* The loop test while (word_idx < num_words).
AfterEntry(idx) == IF idx < num_words THEN "entry" ELSE "assemble"

\* workflow_trinary_input_wordlist writes the accepted word to its word_out.
StoreWord(ws, idx, w) == [ws EXCEPT ![idx + 1] = WriteStr(ws[idx + 1], 0, w)]

\* The result is neither Cancel nor Delete: word_idx++.
TrinaryInputAccepted ==
    /\ pc = "entry"
    /\ \E w \in EnterableWords(word_idx, num_words) :
           /\ words' = StoreWord(words, word_idx, w)
           /\ last' = [op |-> "accepted", at |-> word_idx, word |-> w,
                       same |-> (w = CStr(words[word_idx + 1])), prev |-> last.op]
           /\ entered' = [recent |-> [entered.recent EXCEPT ![word_idx + 1] = w],
                          standing |-> entered.standing \cup {word_idx},
                          replaced |-> (\/ entered.replaced
                                        \/ entered.recent[word_idx + 1] \notin {<<>>, w})]
    /\ word_idx' = word_idx + 1
    /\ pc' = AfterEntry(word_idx + 1)
    /\ UNCHANGED <<app_u2f, heap, picked, result, wordlist, wl_i,
                   number_of_words_choice, num_words, mnemonic, seed, seed_len,
                   password, mismatches, stored, initialized, log, pw_set, store_args>>
    /\ UNCHANGED multisig_vars

\* if (word_idx > 0) word_idx--;  (uint8_t)
DeleteIdxNoGuard(idx) == (idx + 255) % 256
DeleteIdxTwice(idx) == IF idx > 1 THEN idx - 2 ELSE 0
DeleteIdxNoContinue(idx) == IF idx > 0 THEN idx ELSE idx + 1
DeleteIdx(idx) == IF idx > 0 THEN idx - 1 ELSE idx

\* WORKFLOW_TRINARY_INPUT_RESULT_DELETE.
TrinaryInputDelete ==
    /\ pc = "entry"
    /\ word_idx' = DeleteIdx(word_idx)
    /\ pc' = AfterEntry(DeleteIdx(word_idx))
    /\ last' = [op |-> "delete", at |-> word_idx, word |-> <<>>, same |-> FALSE,
                prev |-> last.op]
    /\ UNCHANGED <<app_u2f, heap, picked, result, wordlist, wl_i,
                   number_of_words_choice, num_words, words, mnemonic, seed, seed_len,
                   password, mismatches, stored, initialized, log, pw_set, store_args>>
    /\ entered' = [entered EXCEPT !.standing = {i \in @ : i < DeleteIdx(word_idx)}]
    /\ UNCHANGED multisig_vars

\* WORKFLOW_TRINARY_INPUT_RESULT_CANCEL: _get_mnemonic returns false, and so
\* does the workflow.
TrinaryInputCancel ==
    /\ pc = "entry"
    /\ CleanupWordlist
    /\ Return("false")
    /\ Logged("get_mnemonic:fail")
    /\ last' = [op |-> "cancel", at |-> word_idx, word |-> <<>>, same |-> FALSE,
                prev |-> last.op]
    /\ UNCHANGED <<app_u2f, picked, entered, wl_i, number_of_words_choice, num_words,
                   words, word_idx, seed_len, mismatches, stored, initialized, pw_set,
                   store_args>>
    /\ UNCHANGED multisig_vars

\* One round of the for loop that joins the words.
AssembleStepLeadingSpace(mn, ws, idx) ==
    Strncat(Strcat(mn, <<Space>>), ws[idx + 1], MaxWordLength)
AssembleStep(mn, ws, idx) ==
    Strncat(IF idx # 0 THEN Strcat(mn, <<Space>>) ELSE mn, ws[idx + 1], MaxWordLength)

\* for (word_idx = 0; ...
AssembleBegin ==
    /\ pc = "assemble"
    /\ word_idx' = 0
    /\ pc' = "join"
    /\ UNCHANGED <<app_u2f, heap, picked, entered, result, wordlist, wl_i,
                   number_of_words_choice, num_words, words, mnemonic, seed, seed_len,
                   password, mismatches, stored, initialized, log, last, pw_set,
                   store_args>>
    /\ UNCHANGED multisig_vars

\* ... word_idx < num_words; word_idx++) { strcat; strncat }
AssembleWord ==
    /\ pc = "join"
    /\ word_idx < num_words
    /\ mnemonic' = AssembleStep(mnemonic, words, word_idx)
    /\ word_idx' = word_idx + 1
    /\ UNCHANGED <<app_u2f, heap, picked, entered, pc, result, wordlist, wl_i,
                   number_of_words_choice, num_words, words, seed, seed_len, password,
                   mismatches, stored, initialized, log, last, pw_set, store_args>>
    /\ UNCHANGED multisig_vars

\* return true; from _get_mnemonic, and the declaration of seed in the workflow.
AssembleDone ==
    /\ pc = "join"
    /\ word_idx >= num_words
    /\ CleanupWordlist
    /\ seed' \in UninitSeeds
    /\ pc' = "derive"
    /\ Logged("get_mnemonic:ok")
    /\ last' = NoOp
    /\ entered' = [entered EXCEPT !.replaced = FALSE]
    /\ UNCHANGED <<app_u2f, picked, result, wl_i, number_of_words_choice, num_words,
                   words, word_idx, mnemonic, seed_len, password, mismatches, stored,
                   initialized, pw_set, store_args>>
    /\ UNCHANGED multisig_vars

GetMnemonic ==
    \/ GetWordOk \/ GetWordFail \/ number_of_words_picked \/ pick_number_of_words
    \/ StatusEnterWords \/ TrinaryInputAccepted \/ TrinaryInputDelete
    \/ TrinaryInputCancel \/ AssembleBegin \/ AssembleWord \/ AssembleDone

\* ------------------------------------ workflow_restore_from_mnemonic ----
\* keystore_bip39_mnemonic_to_seed(mnemonic, seed, &seed_len): the pc after it.
AfterDeriveIgnored(ok) == "status_valid"
AfterDerive(ok) == IF ok THEN "status_valid" ELSE "status_invalid"

MnemonicToSeed ==
    /\ pc = "derive"
    /\ \/ \E len \in SeedLens :
              /\ seed' = DerivedSeed(seed, len)
              /\ seed_len' = len
              /\ pc' = AfterDerive(TRUE)
              /\ Logged("mnemonic_to_seed:ok")
       \/ /\ pc' = AfterDerive(FALSE)
          /\ Logged("mnemonic_to_seed:invalid")
          /\ UNCHANGED <<seed, seed_len>>
    /\ UNCHANGED <<app_u2f, heap, picked, entered, result, wordlist, wl_i,
                   number_of_words_choice, num_words, words, word_idx, mnemonic,
                   password, mismatches, stored, initialized, last, pw_set, store_args>>
    /\ UNCHANGED multisig_vars

\* workflow_status_blocking("Recovery words\ninvalid", false); return false;
StatusInvalid ==
    /\ pc = "status_invalid"
    /\ Return("false")
    /\ Logged("status:invalid")
    /\ UNCHANGED <<app_u2f, heap, picked, entered, wordlist, wl_i,
                   number_of_words_choice, num_words, words, word_idx, seed_len,
                   mismatches, stored, initialized, last, pw_set, store_args>>
    /\ UNCHANGED multisig_vars

\* workflow_status_blocking("Recovery words\nvalid", true); char password[...] = {0};
StatusValid ==
    /\ pc = "status_valid"
    /\ password' = Zeros(PasswordBufLen)
    /\ pc' = "password"
    /\ Logged("status:valid")
    /\ UNCHANGED <<app_u2f, heap, picked, entered, result, wordlist, wl_i,
                   number_of_words_choice, num_words, words, word_idx, mnemonic, seed,
                   seed_len, mismatches, stored, initialized, last, pw_set, store_args>>
    /\ UNCHANGED multisig_vars

\* if (!password_set(password)) { confirm } else break;
AfterPasswordSetIgnored(ok) == "store"
AfterPasswordSet(ok) == IF ok THEN "store" ELSE "retry"

PasswordSet ==
    /\ pc = "password"
    /\ \/ \E pw \in Passwords :
              /\ password' = WriteStr(password, 0, pw)
              /\ pc' = AfterPasswordSet(TRUE)
              /\ pw_set' = pw
              /\ Logged("password_set:ok")
              /\ UNCHANGED mismatches
       \/ /\ mismatches < MaxMismatch
          /\ mismatches' = mismatches + 1
          /\ pc' = AfterPasswordSet(FALSE)
          /\ Logged("password_set:mismatch")
          /\ UNCHANGED <<password, pw_set>>
    /\ UNCHANGED <<app_u2f, heap, picked, entered, result, wordlist, wl_i,
                   number_of_words_choice, num_words, words, word_idx, mnemonic, seed,
                   seed_len, stored, initialized, last, store_args>>
    /\ UNCHANGED multisig_vars

\* workflow_confirm_blocking("Passwords do not match. Try again?") accepted: continue.
ConfirmRetryAccepted ==
    /\ pc = "retry"
    /\ pc' = "password"
    /\ Logged("confirm_retry:yes")
    /\ UNCHANGED <<app_u2f, heap, picked, entered, result, wordlist, wl_i,
                   number_of_words_choice, num_words, words, word_idx, mnemonic, seed,
                   seed_len, password, mismatches, stored, initialized, last, pw_set,
                   store_args>>
    /\ UNCHANGED multisig_vars

\* ... declined: return false.
ConfirmRetryDeclined ==
    /\ pc = "retry"
    /\ Return("false")
    /\ Logged("confirm_retry:no")
    /\ UNCHANGED <<app_u2f, heap, picked, entered, wordlist, wl_i,
                   number_of_words_choice, num_words, words, word_idx, seed_len,
                   mismatches, stored, initialized, last, pw_set, store_args>>
    /\ UNCHANGED multisig_vars

\* What keystore_encrypt_and_store_seed(seed, seed_len, password) stores.
StoredSeed(s, len, pw) == [seed |-> SubSeq(s, 1, len), password |-> CStr(pw)]

\* if (!keystore_encrypt_and_store_seed(...)) { status; return false; }, then
\* #if APP_U2F == 1.
AfterStoreIgnored(ok) == IF app_u2f THEN "confirm_time" ELSE "set_initialized"
AfterStore(ok) ==
    IF ~ok THEN "status_store_failed"
    ELSE IF app_u2f THEN "confirm_time" ELSE "set_initialized"

EncryptAndStoreSeed ==
    /\ pc = "store"
    /\ store_args' = StoredSeed(seed, seed_len, password)
    /\ \/ /\ stored' = StoredSeed(seed, seed_len, password)
          /\ pc' = AfterStore(TRUE)
          /\ Logged("store:ok")
       \/ /\ pc' = AfterStore(FALSE)
          /\ Logged("store:fail")
          /\ UNCHANGED stored
    /\ UNCHANGED <<app_u2f, heap, picked, entered, result, wordlist, wl_i,
                   number_of_words_choice, num_words, words, word_idx, mnemonic, seed,
                   seed_len, password, mismatches, initialized, last, pw_set>>
    /\ UNCHANGED multisig_vars

\* workflow_status_blocking("Could not\nrestore backup", false); return false;
StatusStoreFailed ==
    /\ pc = "status_store_failed"
    /\ Return("false")
    /\ Logged("status:store_failed")
    /\ UNCHANGED <<app_u2f, heap, picked, entered, wordlist, wl_i,
                   number_of_words_choice, num_words, words, word_idx, seed_len,
                   mismatches, stored, initialized, last, pw_set, store_args>>
    /\ UNCHANGED multisig_vars

\* workflow_confirm_time(...) accepted.
ConfirmTimeAccepted ==
    /\ pc = "confirm_time"
    /\ pc' = "counter_set"
    /\ Logged("confirm_time:yes")
    /\ UNCHANGED <<app_u2f, heap, picked, entered, result, wordlist, wl_i,
                   number_of_words_choice, num_words, words, word_idx, mnemonic, seed,
                   seed_len, password, mismatches, stored, initialized, last, pw_set,
                   store_args>>
    /\ UNCHANGED multisig_vars

\* workflow_confirm_time(...) declined: return false.
ConfirmTimeDeclinedIgnored ==
    /\ pc = "confirm_time"
    /\ pc' = "counter_set"
    /\ Logged("confirm_time:no")
    /\ UNCHANGED <<app_u2f, heap, picked, entered, result, wordlist, wl_i,
                   number_of_words_choice, num_words, words, word_idx, mnemonic, seed,
                   seed_len, password, mismatches, stored, initialized, last, pw_set,
                   store_args>>
    /\ UNCHANGED multisig_vars

ConfirmTimeDeclined ==
    /\ pc = "confirm_time"
    /\ Return("false")
    /\ Logged("confirm_time:no")
    /\ UNCHANGED <<app_u2f, heap, picked, entered, wordlist, wl_i,
                   number_of_words_choice, num_words, words, word_idx, seed_len,
                   mismatches, stored, initialized, last, pw_set, store_args>>
    /\ UNCHANGED multisig_vars

\* if (!securechip_u2f_counter_set(...)) { /* ignore error */ }
AfterCounterSetChecked(ok) == IF ok THEN "set_initialized" ELSE "status_store_failed"
AfterCounterSet(ok) == "set_initialized"

U2fCounterSet ==
    /\ pc = "counter_set"
    /\ \E ok \in BOOLEAN :
           /\ pc' = AfterCounterSet(ok)
           /\ Logged(IF ok THEN "counter_set:ok" ELSE "counter_set:fail")
    /\ UNCHANGED <<app_u2f, heap, picked, entered, result, wordlist, wl_i,
                   number_of_words_choice, num_words, words, word_idx, mnemonic, seed,
                   seed_len, password, mismatches, stored, initialized, last, pw_set,
                   store_args>>
    /\ UNCHANGED multisig_vars

\* memory_set_initialized() succeeds.
SetInitializedOk ==
    /\ pc = "set_initialized"
    /\ initialized' = TRUE
    /\ pc' = "unlock"
    /\ Logged("set_initialized:ok")
    /\ UNCHANGED <<app_u2f, heap, picked, entered, result, wordlist, wl_i,
                   number_of_words_choice, num_words, words, word_idx, mnemonic, seed,
                   seed_len, password, mismatches, stored, last, pw_set, store_args>>
    /\ UNCHANGED multisig_vars

\* memory_set_initialized() fails: return false.
SetInitializedFail ==
    /\ pc = "set_initialized"
    /\ Return("false")
    /\ Logged("set_initialized:fail")
    /\ UNCHANGED <<app_u2f, heap, picked, entered, wordlist, wl_i,
                   number_of_words_choice, num_words, words, word_idx, seed_len,
                   mismatches, stored, initialized, last, pw_set, store_args>>
    /\ UNCHANGED multisig_vars

\* The results of keystore_unlock.
UnlockResults == {"KEYSTORE_OK", "KEYSTORE_ERR_INCORRECT_PASSWORD", "KEYSTORE_ERR_GENERIC"}

\* if (keystore_unlock(...) != KEYSTORE_OK) Abort(...);
AfterUnlockIgnored(res) == "unlock_bip39"
AfterUnlock(res) == IF res # "KEYSTORE_OK" THEN Abort ELSE "unlock_bip39"

KeystoreUnlock ==
    /\ pc = "unlock"
    /\ \E res \in UnlockResults :
           /\ pc' = AfterUnlock(res)
           /\ Logged(IF res = "KEYSTORE_OK" THEN "unlock:ok" ELSE "unlock:fail")
    /\ UNCHANGED <<app_u2f, heap, picked, entered, result, wordlist, wl_i,
                   number_of_words_choice, num_words, words, word_idx, mnemonic, seed,
                   seed_len, password, mismatches, stored, initialized, last, pw_set,
                   store_args>>
    /\ UNCHANGED multisig_vars

\* workflow_unlock_bip39_blocking(); return true;
UnlockBip39 ==
    /\ pc = "unlock_bip39"
    /\ Return("true")
    /\ Logged("unlock_bip39")
    /\ UNCHANGED <<app_u2f, heap, picked, entered, wordlist, wl_i,
                   number_of_words_choice, num_words, words, word_idx, seed_len,
                   mismatches, stored, initialized, last, pw_set, store_args>>
    /\ UNCHANGED multisig_vars

Restore ==
    \/ MnemonicToSeed \/ StatusInvalid \/ StatusValid \/ PasswordSet
    \/ ConfirmRetryAccepted \/ ConfirmRetryDeclined \/ EncryptAndStoreSeed
    \/ StatusStoreFailed \/ ConfirmTimeAccepted \/ ConfirmTimeDeclined
    \/ U2fCounterSet \/ SetInitializedOk \/ SetInitializedFail \/ KeystoreUnlock
    \/ UnlockBip39

Next == GetMnemonic \/ Restore

Spec == Init /\ [][Next]_vars

\* ---------------------------------------- apps_btc_confirm_multisig ----
\* workflow_restore_from_mnemonic is not running.
RestoreIdle ==
    /\ app_u2f = FALSE
    /\ pc = "idle"
    /\ result = "none"
    /\ wordlist = Zeros(WordlistLen)
    /\ wl_i = 0
    /\ number_of_words_choice = "TRINARY_CHOICE_LEFT"
    /\ num_words = 0
    /\ words = NoWords
    /\ word_idx = 0
    /\ mnemonic = Zeros(MnemonicSize)
    /\ seed = <<>>
    /\ seed_len = 0
    /\ password = <<>>
    /\ mismatches = 0
    /\ stored = <<>>
    /\ initialized = FALSE
    /\ log = <<>>
    /\ last = NoOp
    /\ pw_set = <<>>
    /\ store_args = <<>>
    /\ heap = [obtained |-> Zeros(WordlistLen), released |-> Zeros(WordlistLen)]
    /\ picked = NotPicked
    /\ entered = NothingEntered

\* The values of the arguments: the names of each enum and one value outside
\* them.
Coins == {"BTCCoin_BTC", "BTCCoin_TBTC", "BTCCoin_LTC", "BTCCoin_TLTC", "BTCCoin_OTHER"}
ScriptTypes == {"P2WSH", "P2WSH_P2SH", "SCRIPT_TYPE_OTHER"}
XPubTypeArgs == {"AUTO_ELECTRUM", "AUTO_XPUB_TPUB", "XPUB_TYPE_OTHER"}
OutputXPubTypes ==
    {"CAPITAL_ZPUB", "CAPITAL_YPUB", "CAPITAL_VPUB", "CAPITAL_UPUB", "XPUB", "TPUB"}

\* The multisig accounts: 1 <= threshold <= xpubs_count, our_xpub_index <
\* xpubs_count.
MultisigConfigs ==
    {[threshold |-> t, xpubs_count |-> n, our_xpub_index |-> o, script_type |-> st] :
        t \in 1..MaxCosigners, n \in 1..MaxCosigners, o \in 0..(MaxCosigners - 1),
        st \in ScriptTypes}

InitMultisig ==
    /\ RestoreIdle
    /\ coin \in Coins
    /\ multisig \in {m \in MultisigConfigs :
                        m.threshold <= m.xpubs_count /\ m.our_xpub_index < m.xpubs_count}
    /\ verify_xpubs \in BOOLEAN
    /\ xpub_type \in XPubTypeArgs
    /\ output_xpub_type = "none"
    /\ cosigner = 0
    /\ ext_key = 0
    /\ xpub_str = NoXpubStr
    /\ ms_pc = "basic"
    /\ ms_result = "none"
    /\ ms_log = <<>>

\* An entry of ms_log: a confirmation as workflow_confirm_blocking got it
\* (its body: which cosigner of how many, for this device or not, which xpub)
\* with the user's answer, or an xpub conversion with its result.
Shown(kind, i, n, dev, str, scroll, lt, ok) ==
    [kind |-> kind, index |-> i, total |-> n, this_device |-> dev, xpub |-> str,
     scrollable |-> scroll, longtouch |-> lt, accept_is_nextarrow |-> TRUE, ok |-> ok]
Converted(kind, i, str, ok) ==
    [kind |-> kind, index |-> i, total |-> 0, this_device |-> FALSE, xpub |-> str,
     scrollable |-> FALSE, longtouch |-> FALSE, accept_is_nextarrow |-> FALSE, ok |-> ok]

MsLogged(e) == ms_log' = Append(ms_log, e)

\* Go to a place of the function, or return "true" or "false" from it.
MsGoto(to) ==
    /\ ms_pc' = IF to \in {"true", "false"} THEN "returned" ELSE to
    /\ ms_result' = IF to \in {"true", "false"} THEN to ELSE ms_result

\* if (!workflow_confirm_blocking(&params_basic)) return false;
AfterBasic(ok) == IF ok THEN "name" ELSE "false"

\* The summary "Coin: ..., Multisig type: t-of-n". Its snprintf cannot reach
\* the 100 bytes of basic_info: the two numbers are 32 bit wide.
ConfirmBasic ==
    /\ ms_pc = "basic"
    /\ \E ok \in BOOLEAN :
           /\ MsLogged(Shown("basic", multisig.threshold, multisig.xpubs_count, FALSE,
                             NoXpubStr, FALSE, FALSE, ok))
           /\ MsGoto(AfterBasic(ok))
    /\ UNCHANGED <<coin, multisig, verify_xpubs, xpub_type, output_xpub_type, cosigner,
                   ext_key, xpub_str>>
    /\ UNCHANGED restore_vars

\* if (!workflow_confirm_blocking(&params_name)) return false;
\* if (!verify_xpubs) return true;
AfterNameAlwaysVerify(ok, verify) == IF ~ok THEN "false" ELSE "resolve"
AfterName(ok, verify) == IF ~ok THEN "false" ELSE IF ~verify THEN "true" ELSE "resolve"

ConfirmName ==
    /\ ms_pc = "name"
    /\ \E ok \in BOOLEAN :
           /\ MsLogged(Shown("name", 0, 0, FALSE, NoXpubStr, TRUE, FALSE, ok))
           /\ MsGoto(AfterName(ok, verify_xpubs))
    /\ UNCHANGED <<coin, multisig, verify_xpubs, xpub_type, output_xpub_type, cosigner,
                   ext_key, xpub_str>>
    /\ UNCHANGED restore_vars

\* switch (xpub_type) { ... }: the xpub type, "false" for return false, or
\* Abort.
XpubTypeOfMainnet(xt, c, st) ==
    CASE xt = "AUTO_ELECTRUM" ->
             (CASE c \in {"BTCCoin_BTC", "BTCCoin_LTC", "BTCCoin_TBTC", "BTCCoin_TLTC"} ->
                       (CASE st = "P2WSH" -> "CAPITAL_ZPUB"
                          [] st = "P2WSH_P2SH" -> "CAPITAL_YPUB"
                          [] OTHER -> "false")
                [] OTHER -> Abort)
      [] xt = "AUTO_XPUB_TPUB" ->
             (CASE c \in {"BTCCoin_BTC", "BTCCoin_LTC", "BTCCoin_TBTC", "BTCCoin_TLTC"} -> "XPUB"
                [] OTHER -> Abort)
      [] OTHER -> Abort
XpubType(xt, c, st) ==
    CASE xt = "AUTO_ELECTRUM" ->
             (CASE c \in {"BTCCoin_BTC", "BTCCoin_LTC"} ->
                       (CASE st = "P2WSH" -> "CAPITAL_ZPUB"
                          [] st = "P2WSH_P2SH" -> "CAPITAL_YPUB"
                          [] OTHER -> "false")
                [] c \in {"BTCCoin_TBTC", "BTCCoin_TLTC"} ->
                       (CASE st = "P2WSH" -> "CAPITAL_VPUB"
                          [] st = "P2WSH_P2SH" -> "CAPITAL_UPUB"
                          [] OTHER -> "false")
                [] OTHER -> Abort)
      [] xt = "AUTO_XPUB_TPUB" ->
             (CASE c \in {"BTCCoin_BTC", "BTCCoin_LTC"} -> "XPUB"
                [] c \in {"BTCCoin_TBTC", "BTCCoin_TLTC"} -> "TPUB"
                [] OTHER -> Abort)
      [] OTHER -> Abort

\* The loop test i < num_cosigners; return true; behind the loop.
LoopTest(i, n) == IF i < n THEN "decode" ELSE "true"

\* The switch, and for (size_t i = 0; ...
ResolveXpubType ==
    /\ ms_pc = "resolve"
    /\ LET type == XpubType(xpub_type, coin, multisig.script_type)
       IN  IF type \in OutputXPubTypes
           THEN /\ output_xpub_type' = type
                /\ MsGoto(LoopTest(0, multisig.xpubs_count))
           ELSE /\ MsGoto(type)
                /\ UNCHANGED output_xpub_type
    /\ cosigner' = 0
    /\ UNCHANGED <<coin, multisig, verify_xpubs, xpub_type, ext_key, xpub_str, ms_log>>
    /\ UNCHANGED restore_vars

\* multisig->xpubs[i], and what apps_common_bip32_xpub_from_protobuf makes of
\* it.
XPubIn(i) == [depth |-> 1, key |-> 11 * (i + 1)]
XpubFromProtobuf(xpub_in) == xpub_in.key

\* if (!apps_common_bip32_xpub_from_protobuf(xpub_in, &xpub)) return false;
AfterDecode(ok) == IF ok THEN "encode" ELSE "false"

DecodeXpub ==
    /\ ms_pc = "decode"
    /\ \E ok \in BOOLEAN :
           /\ ext_key' = IF ok THEN XpubFromProtobuf(XPubIn(cosigner)) ELSE 0
           /\ MsLogged(Converted("decode", cosigner, NoXpubStr, ok))
           /\ MsGoto(AfterDecode(ok))
    /\ xpub_str' = NoXpubStr
    /\ UNCHANGED <<coin, multisig, verify_xpubs, xpub_type, output_xpub_type, cosigner>>
    /\ UNCHANGED restore_vars

\* btc_common_encode_xpub(&xpub, output_xpub_type, xpub_str, sizeof(xpub_str))
EncodedXpub(key, type) == [key |-> key, version |-> type]

\* if (!btc_common_encode_xpub(...)) return false;
AfterEncode(ok) == IF ok THEN "confirm" ELSE "false"

EncodeXpub ==
    /\ ms_pc = "encode"
    /\ \E ok \in BOOLEAN :
           /\ xpub_str' = IF ok THEN EncodedXpub(ext_key, output_xpub_type) ELSE xpub_str
           /\ MsLogged(Converted("encode", cosigner, xpub_str', ok))
           /\ MsGoto(AfterEncode(ok))
    /\ UNCHANGED <<coin, multisig, verify_xpubs, xpub_type, output_xpub_type, cosigner,
                   ext_key>>
    /\ UNCHANGED restore_vars

\* if (i == multisig->our_xpub_index): "... (this device): ..."
ThisDevice(i, our) == i = our

\* .longtouch = i == num_cosigners - 1
LongtouchFirst(i, n) == i = 0
Longtouch(i, n) == i = n - 1

\* if (!workflow_confirm_blocking(&params_xpub)) return false; and i++.
AfterCosignerIgnored(ok, i, n) == LoopTest(i + 1, n)
AfterCosigner(ok, i, n) == IF ok THEN LoopTest(i + 1, n) ELSE "false"

\* "Cosigner i+1/n[ (this device)]: xpub". Its snprintf cannot reach the
\* XPUB_ENCODED_LEN + 100 bytes of confirm: xpub_str is shorter than
\* XPUB_ENCODED_LEN.
ConfirmCosigner ==
    /\ ms_pc = "confirm"
    /\ \E ok \in BOOLEAN :
           /\ MsLogged(Shown("cosigner", cosigner + 1, multisig.xpubs_count,
                             ThisDevice(cosigner, multisig.our_xpub_index), xpub_str, TRUE,
                             Longtouch(cosigner, multisig.xpubs_count), ok))
           /\ MsGoto(AfterCosigner(ok, cosigner, multisig.xpubs_count))
           /\ cosigner' = IF ok THEN cosigner + 1 ELSE cosigner
    /\ UNCHANGED <<coin, multisig, verify_xpubs, xpub_type, output_xpub_type, ext_key,
                   xpub_str>>
    /\ UNCHANGED restore_vars

NextMultisig ==
    \/ ConfirmBasic \/ ConfirmName \/ ResolveXpubType \/ DecodeXpub \/ EncodeXpub
    \/ ConfirmCosigner

SpecMultisig == InitMultisig /\ [][NextMultisig]_vars

\* =========================================================== properties ====
AllZero(buf) == \A i \in 1..Len(buf) : buf[i] = 0

InLog(e) == \E i \in 1..Len(log) : log[i] = e

\* The words of slots 0 .. n - 1, with one space between neighbours.
RECURSIVE JoinWords(_, _)
JoinWords(ws, n) ==
    IF n = 0 THEN <<>>
    ELSE IF n = 1 THEN CStr(ws[1])
    ELSE JoinWords(ws, n - 1) \o <<Space>> \o CStr(ws[n])

\* The strings the slots hold.
WordStrings(ws) == [i \in 1..Len(ws) |-> CStr(ws[i])]

CountSpaces(str) == Cardinality({i \in 1..Len(str) : str[i] = Space})

\* The workflow holds the assembled mnemonic and has not returned.
MnemonicAssembled ==
    \/ pc \in {"derive", "status_invalid", "status_valid", "password", "retry", "store",
            "status_store_failed", "confirm_time", "counter_set", "set_initialized",
            "unlock", "unlock_bip39"}
    \/ (pc = "aborted" /\ log # <<>>)

\* C1: once the entry has completed, the mnemonic _get_mnemonic produced is the
\* stored words of positions 0 .. num_words - 1 joined in order with one space
\* between neighbours: it holds num_words - 1 spaces, none of them first or
\* last, and num_words is 12, 18 or 24.
C1_MnemonicIsJoinedWords ==
    MnemonicAssembled =>
        /\ num_words \in {12, 18, 24}
        /\ CStr(mnemonic) = JoinWords(words, num_words)
        /\ CountSpaces(CStr(mnemonic)) = num_words - 1
        /\ Len(CStr(mnemonic)) > 0
        /\ CStr(mnemonic)[1] # Space
        /\ CStr(mnemonic)[Len(CStr(mnemonic))] # Space

C1_Witness ==
    /\ pc = "derive"
    /\ num_words = 18
    /\ CStr(words[1]) = WordlistWord(1)
    /\ CStr(words[18]) = WordlistWord(1)
    /\ CStr(words[17]) = WordlistWord(0)

\* C2: a Delete received at position p > 0 and directly followed by Accepted of
\* the word slot p - 1 already holds leaves the entry where it was before the
\* Delete: the Delete changes no slot, and after the Accepted the slots hold
\* the same words and the position is p again, so the entry goes on, and the
\* mnemonic comes out, as if the Delete had not occurred.
C2_DeleteThenSameWord ==
    /\ [][(last'.op = "delete" /\ last' # last /\ last'.at > 0) =>
              (words' = words /\ word_idx' = last'.at - 1 /\ pc' = "entry")]_vars
    /\ [][(/\ last.op = "delete"
           /\ last.at > 0
           /\ last'.op = "accepted"
           /\ last'.word = CStr(words[last.at])) =>
              (/\ WordStrings(words') = WordStrings(words)
               /\ word_idx' = last.at
               /\ pc' = AfterEntry(last.at))]_vars

C2_Witness ==
    /\ pc = "entry"
    /\ last.op = "accepted"
    /\ last.prev = "delete"
    /\ last.same
    /\ last.word = WordlistWord(1)
    /\ last.at = 1
    /\ word_idx = 2
    /\ CStr(words[3]) # <<>>

\* C3: a Delete received at position 0 changes nothing: the position stays 0,
\* no slot changes, the workflow does not return and the next word entry is for
\* position 0 again; and always 0 <= position <= num_words, with word entry
\* requested only for a position < num_words.
C3_DeleteAtZeroIsNoOp ==
    /\ [](word_idx >= 0 /\ word_idx <= num_words /\ (pc = "entry" => word_idx < num_words))
    /\ [][(pc = "entry" /\ word_idx = 0 /\ last'.op = "delete") =>
              (/\ word_idx' = 0
               /\ words' = words
               /\ pc' = "entry"
               /\ result' = "none"
               /\ mnemonic' = mnemonic
               /\ log' = log)]_vars

C3_Witness ==
    /\ pc = "entry"
    /\ word_idx = 0
    /\ last.op = "delete"
    /\ last.at = 0
    /\ CStr(words[1]) # <<>>

\* C4: whenever workflow_restore_from_mnemonic has returned, the mnemonic
\* buffer and, as far as they were created, the seed and the password buffer
\* hold only zero bytes.
C4_SecretsZeroedAtReturn ==
    pc = "returned" => AllZero(mnemonic) /\ AllZero(seed) /\ AllZero(password)

C4_Witness ==
    /\ pc = "returned"
    /\ result = "false"
    /\ InLog("set_initialized:fail")
    /\ store_args # <<>>
    /\ ~AllZero(store_args.seed)
    /\ store_args.password # <<>>
    /\ Len(seed) = SeedSize
    /\ Len(password) = PasswordBufLen

\* C5: once _get_mnemonic has returned (the log is not empty), every slot of
\* the words array holds only zero bytes.
C5_WordSlotsZeroed ==
    log # <<>> => \A i \in 1..Len(words) : AllZero(words[i])

\* C6 as claimed: once keystore_encrypt_and_store_seed has returned, the seed
\* buffer holds only zero bytes.
C6_SeedZeroAfterStore ==
    (InLog("store:ok") \/ InLog("store:fail")) => AllZero(seed)

\* C6 as amended: after keystore_encrypt_and_store_seed has returned the seed
\* buffer still holds the seed that was passed to it for as long as the
\* workflow has not returned (also after the halt of a failed unlock), and
\* holds only zero bytes once the workflow has returned.
C6_SeedZeroedAtReturnAfterStore ==
    (InLog("store:ok") \/ InLog("store:fail")) =>
        /\ pc = "returned" => AllZero(seed)
        /\ pc # "returned" =>
               /\ SubSeq(seed, 1, seed_len) = store_args.seed
               /\ ~AllZero(seed)
               /\ pc \in {"status_store_failed", "confirm_time", "counter_set",
                          "set_initialized", "unlock", "unlock_bip39", "aborted"}

C6_Witness ==
    /\ pc = "returned"
    /\ result = "true"
    /\ InLog("store:ok")
    /\ ~AllZero(store_args.seed)

\* C7: once keystore_bip39_mnemonic_to_seed has reported the mnemonic invalid,
\* the workflow shows the "invalid" status and returns false, and nothing else:
\* no password prompt, no store, no set_initialized, no unlock.
C7_InvalidMnemonicFails ==
    InLog("mnemonic_to_seed:invalid") =>
        /\ pc \in {"status_invalid", "returned"}
        /\ pc = "status_invalid" =>
               log = <<"get_mnemonic:ok", "mnemonic_to_seed:invalid">> /\ result = "none"
        /\ pc = "returned" =>
               /\ log = <<"get_mnemonic:ok", "mnemonic_to_seed:invalid", "status:invalid">>
               /\ result = "false"
        /\ password = <<>>
        /\ pw_set = <<>>
        /\ store_args = <<>>
        /\ stored = <<>>
        /\ ~initialized

C7_Witness ==
    /\ pc = "returned"
    /\ InLog("mnemonic_to_seed:invalid")
    /\ InLog("status:invalid")

PasswordSetEvents == {"password_set:ok", "password_set:mismatch"}
ConfirmRetryEvents == {"confirm_retry:yes", "confirm_retry:no"}
StoreEvents == {"store:ok", "store:fail"}

\* C8: in the log of a run every password mismatch is followed by one "try
\* again?" confirmation and nothing else, and a confirmation follows nothing
\* but a mismatch; a declined confirmation ends the run with false and without
\* a store; an accepted one is followed by the next password prompt, however
\* many mismatches came before; and keystore_encrypt_and_store_seed is called
\* only right after a password_set that succeeded, with the password it set.
C8_PasswordLoop ==
    /\ \A i \in 1..Len(log) :
           /\ log[i] = "password_set:mismatch" =>
                  IF i < Len(log) THEN log[i + 1] \in ConfirmRetryEvents ELSE pc = "retry"
           /\ log[i] \in ConfirmRetryEvents =>
                  i > 1 /\ log[i - 1] = "password_set:mismatch"
           /\ log[i] = "confirm_retry:no" =>
                  /\ i = Len(log)
                  /\ pc = "returned"
                  /\ result = "false"
                  /\ store_args = <<>>
                  /\ stored = <<>>
           /\ log[i] = "confirm_retry:yes" =>
                  IF i < Len(log) THEN log[i + 1] \in PasswordSetEvents ELSE pc = "password"
           /\ log[i] \in StoreEvents => i > 1 /\ log[i - 1] = "password_set:ok"
    /\ mismatches = Cardinality({i \in 1..Len(log) : log[i] = "password_set:mismatch"})
    /\ store_args # <<>> =>
           /\ pw_set \in Passwords
           /\ store_args.password = pw_set
           /\ stored # <<>> => stored.password = pw_set

C8_Witness ==
    /\ mismatches = MaxMismatch
    /\ InLog("store:ok")
    /\ stored # <<>>
    /\ stored.password = pw_set
    /\ Len(pw_set) = PasswordBufLen - 1

\* The steps of the recovery, in their order, and the events of each.
StepEvents(k) ==
    CASE k = 1 -> {"get_mnemonic:ok", "get_mnemonic:fail"}
      [] k = 2 -> {"mnemonic_to_seed:ok", "mnemonic_to_seed:invalid", "status:invalid",
                   "status:valid"}
      [] k = 3 -> PasswordSetEvents \cup ConfirmRetryEvents
      [] k = 4 -> StoreEvents \cup {"status:store_failed"}
      [] k = 5 -> {"confirm_time:yes", "confirm_time:no", "counter_set:ok", "counter_set:fail"}
      [] k = 6 -> {"set_initialized:ok", "set_initialized:fail"}
      [] k = 7 -> {"unlock:ok", "unlock:fail"}
      [] k = 8 -> {"unlock_bip39"}

StepOf(e) == CHOOSE k \in 1..8 : e \in StepEvents(k)

\* The event with which step k succeeds.
StepSuccess(k) ==
    CASE k = 1 -> "get_mnemonic:ok"
      [] k = 2 -> "mnemonic_to_seed:ok"
      [] k = 3 -> "password_set:ok"
      [] k = 4 -> "store:ok"
      [] k = 5 -> "confirm_time:yes"
      [] k = 6 -> "set_initialized:ok"
      [] k = 7 -> "unlock:ok"

\* The calls that are made at most once in a run.
SingleCalls ==
    {StepEvents(1), {"mnemonic_to_seed:ok", "mnemonic_to_seed:invalid"}, StoreEvents,
     {"confirm_time:yes", "confirm_time:no"}, {"counter_set:ok", "counter_set:fail"},
     StepEvents(6), StepEvents(7), StepEvents(8)}

StepFailures ==
    {"get_mnemonic:fail", "mnemonic_to_seed:invalid", "store:fail", "set_initialized:fail"}

StatusEvents == {"status:invalid", "status:valid", "status:store_failed"}

\* C9: the steps run in the order get mnemonic, mnemonic_to_seed, password
\* loop, store, (time and counter under APP_U2F), set_initialized, unlock,
\* follow-on stage; each but the password prompt is called at most once, and
\* only after every earlier step has succeeded; after a failure of get
\* mnemonic, mnemonic_to_seed, store or set_initialized nothing but a status is
\* shown and the workflow returns false; it returns true only after store,
\* set_initialized and unlock have succeeded.
C9_StepsInOrder ==
    /\ \A i, j \in 1..Len(log) : i < j => StepOf(log[i]) <= StepOf(log[j])
    /\ \A c \in SingleCalls : Cardinality({i \in 1..Len(log) : log[i] \in c}) <= 1
    /\ \A j \in 1..Len(log) : \A k \in 1..(StepOf(log[j]) - 1) :
           IF k = 5 /\ ~app_u2f
           THEN \A i \in 1..Len(log) : log[i] \notin StepEvents(5)
           ELSE \E i \in 1..(j - 1) : log[i] = StepSuccess(k)
    /\ \A i \in 1..Len(log) : log[i] \in StepFailures =>
           /\ \A j \in (i + 1)..Len(log) : log[j] \in StatusEvents
           /\ pc \in {"status_invalid", "status_store_failed", "returned"}
           /\ result = IF pc = "returned" THEN "false" ELSE "none"
    /\ pc = "returned" <=> result # "none"
    /\ result = "true" =>
           /\ InLog("store:ok") /\ InLog("set_initialized:ok") /\ InLog("unlock:ok")
           /\ log[Len(log)] = "unlock_bip39"
           /\ stored # <<>>
           /\ initialized

C9_Witness ==
    /\ pc = "returned"
    /\ result = "true"
    /\ app_u2f
    /\ InLog("counter_set:fail")
    /\ InLog("confirm_retry:yes")

\* C10: once keystore_unlock has returned anything but KEYSTORE_OK the
\* workflow has halted: it has not returned and never does, and the follow-on
\* stage is not started.
C10_UnlockFailureHalts ==
    InLog("unlock:fail") =>
        /\ pc = "aborted"
        /\ result = "none"
        /\ ~InLog("unlock_bip39")
        /\ log[Len(log)] = "unlock:fail"
        /\ ~ENABLED Next

C10_Witness ==
    /\ pc = "aborted"
    /\ InLog("store:ok")
    /\ InLog("set_initialized:ok")
    /\ log[Len(log)] = "unlock:fail"

\* C11: under APP_U2F the result of securechip_u2f_counter_set is ignored:
\* whatever it returns, the call changes nothing but the record of the call
\* and the workflow goes on to memory_set_initialized in the same state, so
\* that the steps after it and the result are the same for both returns.
C11_CounterResultIgnored ==
    [][pc = "counter_set" =>
           /\ app_u2f
           /\ pc' = "set_initialized"
           /\ log' \in {Append(log, "counter_set:ok"), Append(log, "counter_set:fail")}
           /\ UNCHANGED <<app_u2f, heap, picked, entered, result, wordlist, wl_i,
                          number_of_words_choice, num_words, words, word_idx, mnemonic,
                          seed, seed_len, password, mismatches, stored, initialized,
                          last, pw_set, store_args>>]_vars

C11_Witness ==
    /\ pc = "returned"
    /\ result = "true"
    /\ initialized
    /\ InLog("counter_set:fail")
    /\ InLog("unlock:ok")
    /\ log[Len(log)] = "unlock_bip39"

\* C20: under APP_U2F a declined time confirmation ends the run at once with
\* false, after keystore_encrypt_and_store_seed has succeeded: the seed is
\* stored, the device is not marked initialized, and neither
\* securechip_u2f_counter_set nor memory_set_initialized nor keystore_unlock
\* nor the follow-on stage is called; and securechip_u2f_counter_set is called
\* only directly after an accepted time confirmation.
C20_TimeDeclinedAfterStore ==
    /\ InLog("confirm_time:no") =>
           /\ app_u2f
           /\ pc = "returned"
           /\ result = "false"
           /\ log[Len(log)] = "confirm_time:no"
           /\ Len(log) > 1 /\ log[Len(log) - 1] = "store:ok"
           /\ stored # <<>>
           /\ stored = store_args
           /\ ~initialized
           /\ \A i \in 1..Len(log) :
                  log[i] \notin {"counter_set:ok", "counter_set:fail"} \cup StepEvents(6)
                             \cup StepEvents(7) \cup StepEvents(8)
    /\ \A i \in 1..Len(log) : log[i] \in {"counter_set:ok", "counter_set:fail"} =>
           app_u2f /\ i > 1 /\ log[i - 1] = "confirm_time:yes"

C20_Witness ==
    /\ pc = "returned"
    /\ result = "false"
    /\ log[Len(log)] = "confirm_time:no"
    /\ stored # <<>>
    /\ ~AllZero(stored.seed)
    /\ ~initialized

\* C17: every wordlist entry is obtained at most once and released at most
\* once, and only if it was obtained; once _get_mnemonic has returned (with
\* success, after a Cancel or after a keystore_get_bip39_word that failed)
\* every entry obtained has been released exactly once and the array holds
\* no entry; after success or Cancel all entries had been obtained; after a
\* failure at index k exactly the k entries before it had been obtained, and
\* neither the choice of the number of words nor a word entry has happened.
C17_WordlistReleasedOnce ==
    /\ \A i \in 1..WordlistLen :
           /\ heap.released[i] <= heap.obtained[i]
           /\ heap.obtained[i] <= 1
           /\ wordlist[i] # 0 <=> (heap.obtained[i] = 1 /\ heap.released[i] = 0)
    /\ log # <<>> =>
           /\ \A i \in 1..WordlistLen :
                  heap.released[i] = heap.obtained[i] /\ wordlist[i] = 0
           /\ (log[1] = "get_mnemonic:ok" \/ last.op = "cancel") =>
                  \A i \in 1..WordlistLen : heap.released[i] = 1
           /\ (log[1] = "get_mnemonic:fail" /\ last.op # "cancel") =>
                  /\ wl_i < WordlistLen
                  /\ \A i \in 1..WordlistLen :
                         heap.released[i] = IF i <= wl_i THEN 1 ELSE 0
                  /\ picked = NotPicked
                  /\ num_words = 0
                  /\ last = NoOp
                  /\ entered = NothingEntered
                  /\ pc = "returned" /\ result = "false"

C17_Witness ==
    /\ pc = "returned"
    /\ log = <<"get_mnemonic:fail">>
    /\ wl_i = WordlistLen - 1
    /\ heap.obtained[wl_i] = 1
    /\ heap.released[wl_i] = 1
    /\ heap.obtained[WordlistLen] = 0
    /\ heap.released[WordlistLen] = 0

\* C18: _pick_number_of_words does not return before the callback of the
\* choice has fired in that call; the number of words it returns is 12 for the
\* left, 18 for the middle and 24 for the right choice the callback received
\* in that call, whatever the static held from before; for any other choice
\* value the device halts and no number of words is returned.
C18_PickReturnsChoice ==
    /\ pc \in {"wordlist", "pick"} => (num_words = 0 /\ picked = NotPicked)
    /\ pc = "picked" => (num_words = 0 /\ picked.choice = number_of_words_choice)
    /\ num_words # 0 =>
           /\ picked.choice = "TRINARY_CHOICE_LEFT" => num_words = 12
           /\ picked.choice = "TRINARY_CHOICE_MIDDLE" => num_words = 18
           /\ picked.choice = "TRINARY_CHOICE_RIGHT" => num_words = 24
           /\ picked.choice \in TrinaryChoices
    /\ (picked.choice \in TrinaryChoices /\ pc # "picked") => num_words # 0
    /\ picked.choice = "TRINARY_CHOICE_OTHER" =>
           /\ pc \in {"picked", "aborted"}
           /\ num_words = 0
           /\ result = "none"
           /\ log = <<>>
           /\ pc = "aborted" => ~ENABLED Next

C18_Witness ==
    /\ pc = "status_enter"
    /\ picked.over = "TRINARY_CHOICE_RIGHT"
    /\ picked.choice = "TRINARY_CHOICE_LEFT"
    /\ number_of_words_choice = "TRINARY_CHOICE_LEFT"
    /\ num_words = 12

\* The word entry has completed and the mnemonic has been joined.
EntryJoined == (pc = "join" /\ word_idx = num_words) \/ MnemonicAssembled

\* C19: each slot holds the word of the most recent Accepted at its position;
\* while words are entered, the positions whose Accepted still stands (no
\* Delete has stepped back over it since) are exactly those before the
\* current position, so a word a Delete left behind sits at or after the
\* current position, where it is the preset of the next entry; the entry
\* completes only with every position < num_words standing, and the mnemonic
\* is then the most recently accepted words of positions 0 .. num_words - 1,
\* joined; the slots at positions >= num_words are never written.
C19_MnemonicFromLatestAccepted ==
    /\ \A i \in 1..WORKFLOW_RESTORE_FROM_MNEMONIC_MAX_WORDS :
           /\ CStr(words[i]) = entered.recent[i]
           /\ i > num_words => (AllZero(words[i]) /\ entered.recent[i] = <<>>)
    /\ pc = "entry" => entered.standing = 0..(word_idx - 1)
    /\ (pc \in {"assemble", "join"} \/ MnemonicAssembled) =>
           entered.standing = 0..(num_words - 1)
    /\ EntryJoined =>
           /\ CStr(mnemonic) = JoinWords(entered.recent, num_words)
           /\ \A i \in 1..num_words : entered.recent[i] # <<>>

C19_Witness ==
    /\ pc = "join"
    /\ word_idx = num_words
    /\ num_words = 12
    /\ last.op = "accepted"
    /\ last.at = num_words - 1
    /\ entered.replaced
    /\ CStr(words[1]) = WordlistWord(1)
    /\ CStr(mnemonic) = JoinWords(entered.recent, 12)

\* The bytes the strcat and the strncat of one round of the join write behind
\* the string the buffer holds, the terminator included.
BytesOfRound(ws, idx) ==
    (IF idx # 0 THEN 1 ELSE 0) + Min(MaxWordLength, Strlen(ws[idx + 1])) + 1

IsConfirmation(e) == e.kind \in {"basic", "name", "cosigner"}
Confirmations == SelectSeq(ms_log, IsConfirmation)

\* Both first confirmations have been accepted.
SummaryAndNameAccepted == Len(ms_log) >= 2 /\ ms_log[1].ok /\ ms_log[2].ok

\* The switch over xpub_type has been executed.
Resolved == verify_xpubs /\ SummaryAndNameAccepted /\ ms_pc # "resolve"

\* C12: once the xpub type has been resolved, output_xpub_type is CAPITAL_ZPUB
\* (P2WSH) or CAPITAL_YPUB (P2WSH_P2SH) for AUTO_ELECTRUM with BTC or LTC,
\* CAPITAL_VPUB or CAPITAL_UPUB for AUTO_ELECTRUM with TBTC or TLTC, XPUB for
\* AUTO_XPUB_TPUB with BTC or LTC and TPUB with TBTC or TLTC whatever the
\* script type, and every xpub is encoded with it; AUTO_ELECTRUM with one of
\* the four coins and any other script type returns false; any other coin and
\* any other xpub_type halts the device; before the resolution no type is
\* set.
C12_XpubTypeTable ==
    LET st == multisig.script_type
        mainnet == coin \in {"BTCCoin_BTC", "BTCCoin_LTC"}
        testnet == coin \in {"BTCCoin_TBTC", "BTCCoin_TLTC"}
        electrum == xpub_type = "AUTO_ELECTRUM"
        plain == xpub_type = "AUTO_XPUB_TPUB"
        halted == /\ ms_pc = "aborted"
                  /\ ms_result = "none"
                  /\ output_xpub_type = "none"
                  /\ Len(ms_log) = 2
                  /\ ~ENABLED NextMultisig
        failed == /\ ms_pc = "returned"
                  /\ ms_result = "false"
                  /\ output_xpub_type = "none"
                  /\ Len(ms_log) = 2
        type(t) == output_xpub_type = t /\ ms_pc \in {"decode", "encode", "confirm", "returned"}
    IN  /\ ~Resolved => (output_xpub_type = "none" /\ ms_pc # "aborted")
        /\ Resolved =>
               /\ (electrum /\ mainnet /\ st = "P2WSH") => type("CAPITAL_ZPUB")
               /\ (electrum /\ mainnet /\ st = "P2WSH_P2SH") => type("CAPITAL_YPUB")
               /\ (electrum /\ testnet /\ st = "P2WSH") => type("CAPITAL_VPUB")
               /\ (electrum /\ testnet /\ st = "P2WSH_P2SH") => type("CAPITAL_UPUB")
               /\ (electrum /\ (mainnet \/ testnet) /\ st \notin {"P2WSH", "P2WSH_P2SH"}) =>
                      failed
               /\ (plain /\ mainnet) => type("XPUB")
               /\ (plain /\ testnet) => type("TPUB")
               /\ (~mainnet /\ ~testnet) => halted
               /\ (~electrum /\ ~plain) => halted
        /\ \A k \in 1..Len(ms_log) : (ms_log[k].kind = "encode" /\ ms_log[k].ok) =>
               ms_log[k].xpub.version = output_xpub_type

C12_Witness ==
    /\ coin = "BTCCoin_TLTC"
    /\ xpub_type = "AUTO_ELECTRUM"
    /\ multisig.script_type = "P2WSH_P2SH"
    /\ output_xpub_type = "CAPITAL_UPUB"
    /\ ms_pc = "confirm"
    /\ xpub_str.version = "CAPITAL_UPUB"

\* C13: the first confirmation is the summary and the second the name, both
\* without longtouch; the k-th after them is for cosigner k - 1: labelled k of
\* xpubs_count, marked "this device" exactly if k - 1 is our_xpub_index,
\* showing that cosigner's xpub under the resolved type, and with longtouch
\* exactly if it is the last cosigner; and a verification with xpubs that
\* returns true has shown exactly xpubs_count cosigner confirmations.
C13_CosignerSequence ==
    LET n == multisig.xpubs_count
        shown == Confirmations
    IN  /\ \A k \in 1..Len(shown) :
               /\ k = 1 => (shown[k].kind = "basic" /\ ~shown[k].longtouch)
               /\ k = 2 => (shown[k].kind = "name" /\ ~shown[k].longtouch)
               /\ k > 2 =>
                      /\ verify_xpubs
                      /\ shown[k].kind = "cosigner"
                      /\ shown[k].index = k - 2
                      /\ shown[k].total = n
                      /\ shown[k].this_device <=> (k - 3 = multisig.our_xpub_index)
                      /\ shown[k].longtouch <=> (k - 2 = n)
                      /\ shown[k].xpub = [key |-> XPubIn(k - 3).key,
                                          version |-> output_xpub_type]
        /\ Len(shown) <= n + 2
        /\ (verify_xpubs /\ ms_result = "true") =>
               (Len(shown) = n + 2 /\ \A k \in 1..Len(shown) : shown[k].ok)

C13_Witness ==
    /\ ms_pc = "returned"
    /\ ms_result = "true"
    /\ verify_xpubs
    /\ multisig.xpubs_count = MaxCosigners
    /\ multisig.our_xpub_index = 0
    /\ Len(Confirmations) = MaxCosigners + 2
    /\ Confirmations[3].this_device
    /\ ~Confirmations[3].longtouch
    /\ Confirmations[MaxCosigners + 2].longtouch

\* C14: a declined confirmation and a failed xpub conversion are the last
\* thing that happens: the function has returned false, with nothing shown or
\* converted after it; and it returns true only if every confirmation shown
\* was accepted and every conversion succeeded.
C14_FirstFailureEnds ==
    /\ \A k \in 1..Len(ms_log) : ~ms_log[k].ok =>
           /\ k = Len(ms_log)
           /\ ms_pc = "returned"
           /\ ms_result = "false"
    /\ ms_result = "true" => \A k \in 1..Len(ms_log) : ms_log[k].ok
    /\ ms_pc = "returned" <=> ms_result # "none"

C14_Witness ==
    /\ ms_pc = "returned"
    /\ ms_result = "false"
    /\ multisig.xpubs_count = MaxCosigners
    /\ ms_log[Len(ms_log)].kind = "cosigner"
    /\ ms_log[Len(ms_log)].index = MaxCosigners - 1
    /\ ~ms_log[Len(ms_log)].ok
    /\ Len(Confirmations) = MaxCosigners + 1

\* C15: without verify_xpubs, once the summary and the name have been
\* accepted the function has returned true, after exactly these two
\* confirmations: no xpub type is resolved, no xpub is decoded or encoded, no
\* cosigner is shown and the device does not halt, for every coin, script
\* type, xpub_type and cosigner list.
C15_NoVerifyEndsAfterName ==
    ~verify_xpubs =>
        /\ SummaryAndNameAccepted =>
               /\ ms_pc = "returned"
               /\ ms_result = "true"
               /\ Len(ms_log) = 2
        /\ \A k \in 1..Len(ms_log) :
               ms_log[k].kind = (IF k = 1 THEN "basic" ELSE "name")
        /\ Len(ms_log) <= 2
        /\ output_xpub_type = "none"
        /\ ext_key = 0
        /\ xpub_str = NoXpubStr
        /\ cosigner = 0
        /\ ms_pc \in {"basic", "name", "returned"}

C15_Witness ==
    /\ ~verify_xpubs
    /\ ms_pc = "returned"
    /\ ms_result = "true"
    /\ coin = "BTCCoin_OTHER"
    /\ xpub_type = "XPUB_TYPE_OTHER"
    /\ multisig.script_type = "SCRIPT_TYPE_OTHER"
    /\ multisig.xpubs_count = MaxCosigners

====
